---- MODULE Spec2Model ----
(***************************************************************************)
(* EEPROM emulation in one flash page of the CH32V003 (EEPROM.c/EEPROM.h). *)
(* The page is a header (marker, reserved) followed by six-byte entries    *)
(* (Id, Value, CRC), all half-words.  Addresses are half-word offsets from *)
(* EEPROM_ADDRESS: byte offset 4 + 6*i is half-word 2 + 3*i.               *)
(***************************************************************************)
EXTENDS Integers, Sequences, FiniteSets, TLC

\* ------------------------------------------------------------------ constants

EEPROM_OK == 0
EEPROM_ERROR == 1
EEPROM_MARKER == 23130
\* 0xFFFF: the erased half-word, the end-of-data mark and readVar's "not found"
ERASED == 65535
\* size of varIds/varValues and bound of the scan loops
MaxVars == 10
\* initial value of the poll counter in EEPROM_waitForLastOperation
WaitTimeout == 50000
\* byte offset of the first entry and byte size of an entry, in half-words
HeaderHalfWords == 2
EntryHalfWords == 3

\* --------------------------------------------------------------------- bounds

\* longest id list handed to EEPROM_saveVars
MaxCount == 2
\* number of API calls in one run
MaxCalls == 2

\* identifiers and values the callers use
Ids == {0, 1, 3}
Vals == {7, 65534}
\* identifiers and first values of the batch saves
BatchIds == {0, 1}
BatchBases == {20}
\* entry counts of the regions a run starts from (a region left by a batch save)
InitFills == {9, 10}
\* polls during which the hardware keeps FLASH_STATR_BSY set: one less than
\* the poll budget, the budget, and a flag that stays set a hundred budgets long
BusyPolls == {WaitTimeout - 1, WaitTimeout, 100 * WaitTimeout}
\* what the hardware does with an erase or program request: carry it out, or
\* leave the flash as it is
Effects == {"ok", "none"}

\* The modelled part of the page: the header and MaxVars + 1 entry slots (no
\* call programs more than MaxVars + 1 entries).
RegionHalfWords == HeaderHalfWords + EntryHalfWords * (MaxVars + 1)
Addrs == 0 .. (RegionHalfWords - 1)
EntryAddr(i) == HeaderHalfWords + EntryHalfWords * i

\* ------------------------------------------------------------ 16-bit helpers

RECURSIVE Xor16(_, _)
Xor16(a, b) ==
    IF a = 0 THEN b
    ELSE IF b = 0 THEN a
    ELSE (((a % 2) + (b % 2)) % 2) + 2 * Xor16(a \div 2, b \div 2)

RECURSIVE And16(_, _)
And16(a, b) ==
    IF a = 0 \/ b = 0 THEN 0
    ELSE IF a = ERASED THEN b
    ELSE IF b = ERASED THEN a
    ELSE ((a % 2) * (b % 2)) + 2 * And16(a \div 2, b \div 2)

\* ------------------------------------------------------------ pure functions

EEPROM_calcCRC(id, value) == Xor16(id, value) % 65536

EEPROM_waitForLastOperation(busy) ==
    LET timeout == IF busy >= WaitTimeout THEN 0 ELSE WaitTimeout - busy
    IN  IF timeout > 0 THEN EEPROM_OK ELSE EEPROM_ERROR

\* The loop of EEPROM_waitForLastOperation without the poll budget: it polls
\* until the flag clears.
WaitPolls_NoTimeout(busy) == busy

\* The polls of the busy flag one EEPROM_waitForLastOperation makes.
WaitPolls(busy) == IF busy >= WaitTimeout THEN WaitTimeout ELSE busy

EEPROM_isInitialized(m) == m[0] = EEPROM_MARKER

\* EEPROM_findVar's loop giving up at an entry of the id whose CRC is wrong.
RECURSIVE FindFrom_StopAtCorrupt(_, _, _)
FindFrom_StopAtCorrupt(m, id, i) ==
    IF i >= MaxVars THEN -1
    ELSE LET entryId == m[EntryAddr(i)]
             entryValue == m[EntryAddr(i) + 1]
             entryCRC == m[EntryAddr(i) + 2]
         IN  IF entryId = ERASED THEN -1
             ELSE IF entryId % 256 = id
                  THEN (IF entryCRC = EEPROM_calcCRC(entryId, entryValue) THEN i ELSE -1)
                  ELSE FindFrom_StopAtCorrupt(m, id, i + 1)

\* The slot of the first entry with this id and a matching CRC, or -1.
RECURSIVE FindFrom(_, _, _)
FindFrom(m, id, i) ==
    IF i >= MaxVars THEN -1
    ELSE LET entryId == m[EntryAddr(i)]
             entryValue == m[EntryAddr(i) + 1]
             entryCRC == m[EntryAddr(i) + 2]
         IN  IF entryId = ERASED THEN -1
             ELSE IF entryId % 256 = id /\ entryCRC = EEPROM_calcCRC(entryId, entryValue)
                  THEN i
                  ELSE FindFrom(m, id, i + 1)

EEPROM_findVar(m, id) ==
    IF ~EEPROM_isInitialized(m) THEN -1 ELSE FindFrom(m, id, 0)

EEPROM_readVar(m, id) ==
    LET s == EEPROM_findVar(m, id)
    IN  IF s >= 0 THEN m[EntryAddr(s) + 1] ELSE ERASED

EEPROM_varExists(m, id) == IF EEPROM_findVar(m, id) >= 0 THEN 1 ELSE 0

\* The identifiers the properties look up: those the callers use, those of the
\* initial regions and the bytes of the values.
CheckedIds == (0 .. 12) \cup {254, 255}
StoredIds(m) == {id \in CheckedIds : EEPROM_varExists(m, id) = 1}

\* ------------------------------------------------------- flash primitives

\* The page after a page erase.
ErasedRegion == [a \in Addrs |-> ERASED]

\* The half-word after the hardware handled a program request: flash
\* programming only clears bits.
Program(old, data, effect) ==
    IF effect = "ok" THEN And16(old, data) ELSE old

\* EEPROM_format erasing the header only: the entries outlive the erase.
EEPROM_format_HeaderOnly(m, hw) ==
    IF EEPROM_waitForLastOperation(hw.busy1) # EEPROM_OK
    THEN [mem |-> m, status |-> EEPROM_ERROR, issued |-> FALSE, done |-> FALSE]
    ELSE LET m2 == IF hw.effect = "ok"
                   THEN [a \in Addrs |-> IF a < HeaderHalfWords THEN ERASED ELSE m[a]]
                   ELSE m
             status == EEPROM_waitForLastOperation(hw.busy2)
             done == hw.effect = "ok"
         IN  IF m2[0] # ERASED
             THEN [mem |-> m2, status |-> EEPROM_ERROR, issued |-> TRUE, done |-> done]
             ELSE [mem |-> m2, status |-> status, issued |-> TRUE, done |-> done]

\* EEPROM_format without the read-back of the first half-word: an erase the
\* hardware did not carry out is reported as done.
EEPROM_format_NoVerify(m, hw) ==
    IF EEPROM_waitForLastOperation(hw.busy1) # EEPROM_OK
    THEN [mem |-> m, status |-> EEPROM_ERROR, issued |-> FALSE, done |-> FALSE]
    ELSE [mem |-> IF hw.effect = "ok" THEN ErasedRegion ELSE m,
          status |-> EEPROM_waitForLastOperation(hw.busy2),
          issued |-> TRUE, done |-> hw.effect = "ok"]

\* EEPROM_format: hw = [busy1, busy2, effect]; the result is the page, the
\* status returned, whether the erase was started (issued) and whether the
\* hardware carried it out (done).
EEPROM_format(m, hw) ==
    IF EEPROM_waitForLastOperation(hw.busy1) # EEPROM_OK
    THEN [mem |-> m, status |-> EEPROM_ERROR, issued |-> FALSE, done |-> FALSE]
    ELSE LET m2 == IF hw.effect = "ok" THEN ErasedRegion ELSE m
             status == EEPROM_waitForLastOperation(hw.busy2)
             done == hw.effect = "ok"
         IN  IF m2[0] # ERASED
             THEN [mem |-> m2, status |-> EEPROM_ERROR, issued |-> TRUE, done |-> done]
             ELSE [mem |-> m2, status |-> status, issued |-> TRUE, done |-> done]

EEPROM_writeHalfWord(m, address, data, hw) ==
    IF EEPROM_waitForLastOperation(hw.busy1) # EEPROM_OK
    THEN [mem |-> m, status |-> EEPROM_ERROR, issued |-> FALSE, done |-> FALSE]
    ELSE LET m2 == [m EXCEPT ![address] = Program(m[address], data, hw.effect)]
             status == EEPROM_waitForLastOperation(hw.busy2)
             done == hw.effect = "ok"
         IN  IF m2[address] # data
             THEN [mem |-> m2, status |-> EEPROM_ERROR, issued |-> TRUE, done |-> done]
             ELSE [mem |-> m2, status |-> status, issued |-> TRUE, done |-> done]

\* ------------------------------------------------ flash control register

\* FLASH->CTLR, the bits the code touches: LOCK, PER and PG.  After reset the
\* controller is locked.
ResetCtlr == [lock |-> TRUE, per |-> FALSE, pg |-> FALSE]
\* no operation started
NoOp == [op |-> "none", lock |-> TRUE, per |-> FALSE, pg |-> FALSE]
StartedOp(kind, c) == [op |-> kind, lock |-> c.lock, per |-> c.per, pg |-> c.pg]

\* the two key writes clear LOCK
EEPROM_unlockFlash(c) == IF c.lock THEN [c EXCEPT !.lock = FALSE] ELSE c
EEPROM_lockFlash(c) == [c EXCEPT !.lock = TRUE]

\* EEPROM_format leaving the controller unlocked when the erase did not work.
FormatCtlr_NoLockOnError(c, r, hw) ==
    LET c1 == EEPROM_unlockFlash(c) IN
    IF EEPROM_waitForLastOperation(hw.busy1) # EEPROM_OK
    THEN [ctlr |-> EEPROM_lockFlash(c1), op |-> NoOp]
    ELSE LET c2 == [c1 EXCEPT !.per = TRUE]
             c3 == [c2 EXCEPT !.per = FALSE]
         IN  IF r.mem[0] # ERASED
             THEN [ctlr |-> c3, op |-> StartedOp("erase", c2)]
             ELSE [ctlr |-> EEPROM_lockFlash(c3), op |-> StartedOp("erase", c2)]

\* EEPROM_format, the controller: r is the result of EEPROM_format(m, hw); the
\* result is the register at the return and the register when the erase was
\* started (FLASH_CTLR_STRT).
FormatCtlr(c, r, hw) ==
    LET c1 == EEPROM_unlockFlash(c) IN
    IF EEPROM_waitForLastOperation(hw.busy1) # EEPROM_OK
    THEN [ctlr |-> EEPROM_lockFlash(c1), op |-> NoOp]
    ELSE LET c2 == [c1 EXCEPT !.per = TRUE]
             c3 == [c2 EXCEPT !.per = FALSE]
         IN  IF r.mem[0] # ERASED
             THEN [ctlr |-> EEPROM_lockFlash(c3), op |-> StartedOp("erase", c2)]
             ELSE [ctlr |-> EEPROM_lockFlash(c3), op |-> StartedOp("erase", c2)]

\* EEPROM_writeHalfWord, the controller: r is the result of the write w =
\* [addr, data]; the register at the return and at the store of the half-word.
WriteHalfWordCtlr(c, r, w, hw) ==
    LET c1 == EEPROM_unlockFlash(c) IN
    IF EEPROM_waitForLastOperation(hw.busy1) # EEPROM_OK
    THEN [ctlr |-> EEPROM_lockFlash(c1), op |-> NoOp]
    ELSE LET c2 == [c1 EXCEPT !.pg = TRUE]
             c3 == [c2 EXCEPT !.pg = FALSE]
         IN  IF r.mem[w.addr] # w.data
             THEN [ctlr |-> EEPROM_lockFlash(c3), op |-> StartedOp("program", c2)]
             ELSE [ctlr |-> EEPROM_lockFlash(c3), op |-> StartedOp("program", c2)]

\* -------------------------------------------------- compaction (working set)

NoVars == [ids |-> <<>>, values |-> <<>>]

\* The scan of EEPROM_saveVar without the CRC check: corrupt entries are kept.
RECURSIVE ScanVar_NoCRC(_, _, _, _)
ScanVar_NoCRC(m, id, i, acc) ==
    IF i >= MaxVars THEN acc
    ELSE LET entryId == m[EntryAddr(i)]
             entryValue == m[EntryAddr(i) + 1]
         IN  IF entryId = ERASED THEN acc
             ELSE IF entryId % 256 = id THEN ScanVar_NoCRC(m, id, i + 1, acc)
             ELSE ScanVar_NoCRC(m, id, i + 1,
                                [ids |-> Append(acc.ids, entryId % 256),
                                 values |-> Append(acc.values, entryValue)])

\* EEPROM_saveVar, the scan of the existing entries: every entry up to the
\* first erased Id whose id differs from the one saved and whose CRC matches.
RECURSIVE ScanVar(_, _, _, _)
ScanVar(m, id, i, acc) ==
    IF i >= MaxVars THEN acc
    ELSE LET entryId == m[EntryAddr(i)]
             entryValue == m[EntryAddr(i) + 1]
             entryCRC == m[EntryAddr(i) + 2]
         IN  IF entryId = ERASED THEN acc
             ELSE IF entryId % 256 = id THEN ScanVar(m, id, i + 1, acc)
             ELSE IF entryCRC = EEPROM_calcCRC(entryId, entryValue)
                  THEN ScanVar(m, id, i + 1,
                               [ids |-> Append(acc.ids, entryId % 256),
                                values |-> Append(acc.values, entryValue)])
                  ELSE ScanVar(m, id, i + 1, acc)

\* The scan of EEPROM_saveVars comparing with ids[0] only: an entry that a
\* later id of the list replaces is kept.
RECURSIVE ScanVars_FirstOnly(_, _, _, _)
ScanVars_FirstOnly(m, ids, i, acc) ==
    IF i >= MaxVars THEN acc
    ELSE LET entryId == m[EntryAddr(i)]
             entryValue == m[EntryAddr(i) + 1]
             entryCRC == m[EntryAddr(i) + 2]
             baseId == entryId % 256
             skip == Len(ids) > 0 /\ ids[1] = baseId
         IN  IF entryId = ERASED THEN acc
             ELSE IF entryCRC = EEPROM_calcCRC(entryId, entryValue) /\ ~skip
                  THEN ScanVars_FirstOnly(m, ids, i + 1,
                                          [ids |-> Append(acc.ids, baseId),
                                           values |-> Append(acc.values, entryValue)])
                  ELSE ScanVars_FirstOnly(m, ids, i + 1, acc)

\* EEPROM_saveVars, the scan: every entry with a matching CRC whose id is not
\* in the list saved.
RECURSIVE ScanVars(_, _, _, _)
ScanVars(m, ids, i, acc) ==
    IF i >= MaxVars THEN acc
    ELSE LET entryId == m[EntryAddr(i)]
             entryValue == m[EntryAddr(i) + 1]
             entryCRC == m[EntryAddr(i) + 2]
             baseId == entryId % 256
             skip == \E j \in 1 .. Len(ids) : ids[j] = baseId
         IN  IF entryId = ERASED THEN acc
             ELSE IF entryCRC = EEPROM_calcCRC(entryId, entryValue) /\ ~skip
                  THEN ScanVars(m, ids, i + 1,
                                [ids |-> Append(acc.ids, baseId),
                                 values |-> Append(acc.values, entryValue)])
                  ELSE ScanVars(m, ids, i + 1, acc)

\* Where the stores varIds[10] and varValues[10] of EEPROM_saveVar land when
\* the scan filled the arrays (undefined behaviour): in padding ("pad"), or
\* varIds[10] on varCount ("count"), or varValues[10] on varIds[0..1] ("ids").
Layouts == {"pad", "count", "ids"}

\* EEPROM_saveVar, "Add our new variable": the working set that is written.
AppendVar(ws, id, value, layout) ==
    IF Len(ws.ids) < MaxVars
    THEN [ids |-> Append(ws.ids, id), values |-> Append(ws.values, value)]
    ELSE CASE layout = "count" /\ id < MaxVars ->
                \* varCount = id; varValues[id] = value; varCount++
                [ids |-> SubSeq(ws.ids, 1, id + 1),
                 values |-> SubSeq([ws.values EXCEPT ![id + 1] = value], 1, id + 1)]
           [] layout = "ids" ->
                [ids |-> Append([ws.ids EXCEPT ![1] = value % 256,
                                              ![2] = value \div 256], id),
                 values |-> Append(ws.values, value)]
           [] OTHER ->
                [ids |-> Append(ws.ids, id), values |-> Append(ws.values, value)]

\* EEPROM_saveVars, "Append all new variables": stops when the arrays are full.
RECURSIVE AppendVars(_, _, _, _)
AppendVars(ws, ids, values, j) ==
    IF j > Len(ids) THEN ws
    ELSE IF Len(ws.ids) >= MaxVars THEN ws
    ELSE AppendVars([ids |-> Append(ws.ids, ids[j]),
                     values |-> Append(ws.values, values[j])],
                    ids, values, j + 1)

SaveVarSet(m, id, value, layout) ==
    AppendVar(IF EEPROM_isInitialized(m) THEN ScanVar(m, id, 0, NoVars) ELSE NoVars,
              id, value, layout)

SaveVarsSet(m, ids, values) ==
    AppendVars(IF EEPROM_isInitialized(m) THEN ScanVars(m, ids, 0, NoVars) ELSE NoVars,
               ids, values, 1)

\* ------------------------------------------------------------------- state

VARIABLES
    mem,        \* the flash page, half-word offset -> half-word
    pc,         \* "idle", or the primitive step the running save is at
    i,          \* index of the entry being written
    part,       \* 0, 1, 2: its Id, Value or CRC half-word
    call,       \* the running (or last) call: [op, ids, values]
    varIds,     \* the working set of the running save
    varValues,
    status,     \* the status the last call returned
    mem0,       \* the page when the running (or last) call started
    prev,       \* the call before it: [op, status, stored, headerOnly]
    last,       \* the last primitive step of this call: [pc, i, part, done]
    overflow,   \* the running (or last) call stored past the end of the arrays
    failedSteps,\* primitive steps of this call that reported a failure
    lateOps,    \* primitive steps of this call issued after a failed one
    nErase,     \* page erases this call started
    nProg,      \* half-word programs this call started
    ncalls,     \* calls made
    named,      \* the ids the saves since the last format have named
    got,        \* the last lookup: [id, value, exists]
    log,        \* the erases and programs this call started, in order
    polls,      \* polls of the busy flag in this call: [total, last wait]
    dirty,      \* the half-words programmed since the last page erase
    reprogrammed, \* a program was started on a half-word of dirty or not erased
    ctlr,       \* FLASH->CTLR between primitives: [lock, per, pg]
    opCtlr      \* FLASH->CTLR when the last primitive started its operation

vars == <<mem, pc, i, part, call, varIds, varValues, status, mem0, prev, last, overflow,
          failedSteps, lateOps, nErase, nProg, ncalls, named, got, log, polls,
          dirty, reprogrammed, ctlr, opCtlr>>

\* The page a successful save of these entries leaves.
RegionOf(ids, values) ==
    [a \in Addrs |->
        IF a = 0 THEN EEPROM_MARKER
        ELSE IF a = 1 THEN 0
        ELSE LET s == (a - HeaderHalfWords) \div EntryHalfWords
                 p == (a - HeaderHalfWords) % EntryHalfWords
             IN  IF s >= Len(ids) THEN ERASED
                 ELSE IF p = 0 THEN ids[s + 1]
                 ELSE IF p = 1 THEN values[s + 1]
                 ELSE EEPROM_calcCRC(ids[s + 1], values[s + 1])]

\* A region filled by one batch save of n variables 3, 4, ... with values 100, 101, ...
FilledRegion(n) == RegionOf([k \in 1 .. n |-> k + 2], [k \in 1 .. n |-> k + 99])

NoCall == [op |-> "none", ids |-> <<>>, values |-> <<>>]
NoPrev == [op |-> "none", status |-> EEPROM_OK, stored |-> {}, headerOnly |-> FALSE]
NoLast == [pc |-> "idle", i |-> 0, part |-> 0, done |-> FALSE]
NoLookup == [id |-> -1, value |-> ERASED, exists |-> 0]
NoPolls == [total |-> 0, last |-> 0]

Init ==
    /\ mem \in {ErasedRegion} \cup {FilledRegion(n) : n \in InitFills}
    /\ pc = "idle"
    /\ i = 0
    /\ part = 0
    /\ call = NoCall
    /\ varIds = <<>>
    /\ varValues = <<>>
    /\ status = EEPROM_OK
    /\ mem0 = mem
    /\ prev = NoPrev
    /\ last = NoLast
    /\ overflow = FALSE
    /\ failedSteps = 0
    /\ lateOps = 0
    /\ nErase = 0
    /\ nProg = 0
    /\ ncalls = 0
    /\ named = StoredIds(mem)
    /\ got = NoLookup
    /\ log = <<>>
    /\ polls = NoPolls
    /\ dirty = {a \in Addrs : mem[a] # ERASED}
    /\ reprogrammed = FALSE
    /\ ctlr = ResetCtlr
    /\ opCtlr = NoOp

\* ------------------------------------------------------------ control flow

\* The initialization of an uninitialized region running into the rewrite
\* without the second erase.
NextPos_NoSecondErase(p, k, h, varCount) ==
    CASE p = "init_format" -> [pc |-> "init_marker", i |-> 0, part |-> 0]
      [] p = "init_marker" -> [pc |-> "init_reserved", i |-> 0, part |-> 0]
      [] p = "init_reserved" -> [pc |-> "marker", i |-> 0, part |-> 0]
      [] p = "format" -> [pc |-> "marker", i |-> 0, part |-> 0]
      [] p = "marker" -> [pc |-> "reserved", i |-> 0, part |-> 0]
      [] p = "reserved" ->
            IF varCount > 0 THEN [pc |-> "entry", i |-> 0, part |-> 0]
            ELSE [pc |-> "idle", i |-> 0, part |-> 0]
      [] p = "entry" /\ h < EntryHalfWords - 1 -> [pc |-> "entry", i |-> k, part |-> h + 1]
      [] p = "entry" /\ k + 1 < varCount -> [pc |-> "entry", i |-> k + 1, part |-> 0]
      [] OTHER -> [pc |-> "idle", i |-> 0, part |-> 0]

\* The primitive step after this one, when this one returned EEPROM_OK
\* (varCount is the size of the working set).
NextPos(p, k, h, varCount) ==
    CASE p = "init_format" -> [pc |-> "init_marker", i |-> 0, part |-> 0]
      [] p = "init_marker" -> [pc |-> "init_reserved", i |-> 0, part |-> 0]
      [] p = "init_reserved" -> [pc |-> "format", i |-> 0, part |-> 0]
      [] p = "format" -> [pc |-> "marker", i |-> 0, part |-> 0]
      [] p = "marker" -> [pc |-> "reserved", i |-> 0, part |-> 0]
      [] p = "reserved" ->
            IF varCount > 0 THEN [pc |-> "entry", i |-> 0, part |-> 0]
            ELSE [pc |-> "idle", i |-> 0, part |-> 0]
      [] p = "entry" /\ h < EntryHalfWords - 1 -> [pc |-> "entry", i |-> k, part |-> h + 1]
      [] p = "entry" /\ k + 1 < varCount -> [pc |-> "entry", i |-> k + 1, part |-> 0]
      [] OTHER -> [pc |-> "idle", i |-> 0, part |-> 0]

\* A save that does not look at the status of its primitive steps.
AfterStep_NoCheck(p, k, h, varCount, st) == NextPos(p, k, h, varCount)

\* A save that repeats a primitive step that failed instead of returning.
AfterStep_Retry(p, k, h, varCount, st) ==
    IF st # EEPROM_OK THEN [pc |-> p, i |-> k, part |-> h]
    ELSE NextPos(p, k, h, varCount)

\* "if (status != EEPROM_OK) return status;" after every primitive step.
AfterStep(p, k, h, varCount, st) ==
    IF st # EEPROM_OK THEN [pc |-> "idle", i |-> 0, part |-> 0]
    ELSE NextPos(p, k, h, varCount)

\* The status a save returns when it stops after a step with status st: the
\* failing step's status, or EEPROM_OK after the last step.
ReturnStatus(st) == IF st # EEPROM_OK THEN st ELSE EEPROM_OK

\* What the hardware may do with one primitive step.
EraseOutcomes == [busy1 : BusyPolls, busy2 : BusyPolls, effect : Effects]
ProgramOutcomes == [busy1 : BusyPolls, busy2 : BusyPolls, effect : Effects]

\* The id lists and value lists of a batch save.
IdLists == UNION {[1 .. n -> BatchIds] : n \in 0 .. MaxCount}
\* the j-th value of a batch is its base + j
ValueLists(n) == {[j \in 1 .. n |-> b + j] : b \in BatchBases}

Bool2Nat(b) == IF b THEN 1 ELSE 0

\* The flash operations a call starts: FLASH_CTLR_STRT for a page erase, the
\* store of a half-word for a program.
EraseOp == [op |-> "erase", addr |-> 0, data |-> ERASED]
ProgramOp(address, data) == [op |-> "program", addr |-> address, data |-> data]
\* The polls of one primitive step: its first wait and, when that one
\* succeeded, its second wait.
Polled(p, hw) ==
    IF EEPROM_waitForLastOperation(hw.busy1) # EEPROM_OK
    THEN [total |-> p.total + WaitPolls(hw.busy1), last |-> WaitPolls(hw.busy1)]
    ELSE [total |-> p.total + WaitPolls(hw.busy1) + WaitPolls(hw.busy2),
          last |-> WaitPolls(hw.busy2)]

\* the log after a primitive step with result r
Logged(l, r, op) == IF r.issued THEN Append(l, op) ELSE l

\* ----------------------------------------------------------------- actions

\* The last call was a save that stopped with the header written and no entry
\* half-word programmed: at the reserved half-word, programmed but reported as
\* failed, or at the Id of the first entry, not programmed.
AbortedAfterHeader ==
    /\ pc = "idle"
    /\ call.op \in {"saveVar", "saveVars"}
    /\ status # EEPROM_OK
    /\ \/ last.pc = "reserved" /\ last.done
       \/ last.pc = "entry" /\ last.i = 0 /\ last.part = 0 /\ ~last.done

\* The half-words programmed since the last erase, after an erase and after a
\* program with result r.
Erased(d, r) == IF r.done THEN {} ELSE d
Programmed(d, r, address) == IF r.done THEN d \cup {address} ELSE d
\* The program this step started hits a half-word programmed since the last
\* erase, or one that does not read 0xFFFF.
Reprograms(r, address) == r.issued /\ (address \in dirty \/ mem[address] # ERASED)

\* A call starts: the previous call becomes prev.
StartCall(c) ==
    /\ pc = "idle"
    /\ ncalls < MaxCalls
    /\ ncalls' = ncalls + 1
    /\ call' = c
    /\ mem0' = mem
    /\ prev' = [op |-> call.op, status |-> status, stored |-> StoredIds(mem0),
                headerOnly |-> AbortedAfterHeader]
    /\ lateOps' = 0
    /\ UNCHANGED got

\* A save starts: a call that has not touched the flash yet.
StartSave(c) ==
    /\ StartCall(c)
    /\ UNCHANGED <<dirty, reprogrammed, ctlr>>
    /\ opCtlr' = NoOp

\* EEPROM_format called by the application.
Format ==
    /\ StartCall([op |-> "format", ids |-> <<>>, values |-> <<>>])
    /\ \E hw \in EraseOutcomes :
         LET r == EEPROM_format(mem, hw) IN
         /\ mem' = r.mem
         /\ status' = r.status
         /\ failedSteps' = Bool2Nat(r.status # EEPROM_OK)
         /\ last' = [pc |-> "format", i |-> 0, part |-> 0, done |-> r.done]
         /\ nErase' = Bool2Nat(r.issued)
         /\ log' = Logged(<<>>, r, EraseOp)
         /\ polls' = Polled(NoPolls, hw)
         /\ dirty' = Erased(dirty, r)
         /\ ctlr' = FormatCtlr(ctlr, r, hw).ctlr
         /\ opCtlr' = FormatCtlr(ctlr, r, hw).op
         /\ named' = IF r.status = EEPROM_OK THEN {} ELSE named
    /\ nProg' = 0
    /\ UNCHANGED reprogrammed
    /\ overflow' = FALSE
    /\ UNCHANGED <<pc, i, part, varIds, varValues>>

\* EEPROM_saveVar up to its first primitive step: the scan and the append.
SaveVarCall ==
    \E id \in Ids, value \in Vals, layout \in Layouts :
      LET ws == SaveVarSet(mem, id, value, layout) IN
      /\ StartSave([op |-> "saveVar", ids |-> <<id>>, values |-> <<value>>])
      /\ varIds' = ws.ids
      /\ varValues' = ws.values
      /\ overflow' = (EEPROM_isInitialized(mem)
                        /\ Len(ScanVar(mem, id, 0, NoVars).ids) >= MaxVars)
      /\ pc' = IF EEPROM_isInitialized(mem) THEN "format" ELSE "init_format"
      /\ i' = 0
      /\ part' = 0
      /\ nErase' = 0
      /\ nProg' = 0
      /\ failedSteps' = 0
      /\ last' = NoLast
      /\ named' = named \cup {id}
      /\ log' = <<>>
      /\ polls' = NoPolls
      /\ UNCHANGED <<mem, status>>

\* EEPROM_saveVars up to its first primitive step.
SaveVarsCall ==
    \E ids \in IdLists :
      \E values \in ValueLists(Len(ids)) :
        LET ws == SaveVarsSet(mem, ids, values) IN
        /\ StartSave([op |-> "saveVars", ids |-> ids, values |-> values])
        /\ varIds' = ws.ids
        /\ varValues' = ws.values
        /\ overflow' = FALSE
        /\ pc' = IF EEPROM_isInitialized(mem) THEN "format" ELSE "init_format"
        /\ i' = 0
        /\ part' = 0
        /\ nErase' = 0
        /\ nProg' = 0
        /\ failedSteps' = 0
        /\ last' = NoLast
        /\ named' = named \cup {ids[j] : j \in 1 .. Len(ids)}
        /\ log' = <<>>
        /\ polls' = NoPolls
        /\ UNCHANGED <<mem, status>>

\* The bookkeeping of one primitive step of a save with result r.
Stepped(r) ==
    LET next == AfterStep(pc, i, part, Len(varIds), r.status) IN
    /\ mem' = r.mem
    /\ pc' = next.pc
    /\ i' = next.i
    /\ part' = next.part
    /\ status' = IF next.pc = "idle" THEN ReturnStatus(r.status) ELSE status
    /\ failedSteps' = failedSteps + Bool2Nat(r.status # EEPROM_OK)
    /\ lateOps' = lateOps + Bool2Nat(failedSteps > 0)
    /\ last' = [pc |-> pc, i |-> i, part |-> part, done |-> r.done]
    /\ UNCHANGED <<call, varIds, varValues, mem0, prev, overflow, ncalls, named, got>>

\* The page erase of a save (in its initialization and before the rewrite).
StepFormat ==
    /\ pc \in {"init_format", "format"}
    /\ \E hw \in EraseOutcomes :
         LET r == EEPROM_format(mem, hw) IN
         /\ Stepped(r)
         /\ nErase' = nErase + Bool2Nat(r.issued)
         /\ log' = Logged(log, r, EraseOp)
         /\ polls' = Polled(polls, hw)
         /\ dirty' = Erased(dirty, r)
         /\ ctlr' = FormatCtlr(ctlr, r, hw).ctlr
         /\ opCtlr' = FormatCtlr(ctlr, r, hw).op
    /\ UNCHANGED <<nProg, reprogrammed>>

\* The two header half-words: the marker, then reserved = 0.
StepHeader ==
    /\ pc \in {"init_marker", "init_reserved", "marker", "reserved"}
    /\ \E hw \in ProgramOutcomes :
         LET r == IF pc \in {"init_marker", "marker"}
                  THEN EEPROM_writeHalfWord(mem, 0, EEPROM_MARKER, hw)
                  ELSE EEPROM_writeHalfWord(mem, 1, 0, hw)
             op == IF pc \in {"init_marker", "marker"}
                   THEN ProgramOp(0, EEPROM_MARKER) ELSE ProgramOp(1, 0) IN
         /\ Stepped(r)
         /\ nProg' = nProg + Bool2Nat(r.issued)
         /\ log' = Logged(log, r, op)
         /\ polls' = Polled(polls, hw)
         /\ dirty' = Programmed(dirty, r, op.addr)
         /\ reprogrammed' = (reprogrammed \/ Reprograms(r, op.addr))
         /\ ctlr' = WriteHalfWordCtlr(ctlr, r, op, hw).ctlr
         /\ opCtlr' = WriteHalfWordCtlr(ctlr, r, op, hw).op
    /\ UNCHANGED nErase

\* One half-word of entry i: its Id, Value or CRC.
StepEntry ==
    /\ pc = "entry"
    /\ \E hw \in ProgramOutcomes :
         LET varId == varIds[i + 1]
             varValue == varValues[i + 1]
             varCRC == EEPROM_calcCRC(varId, varValue)
             data == CASE part = 0 -> varId [] part = 1 -> varValue [] OTHER -> varCRC
             r == EEPROM_writeHalfWord(mem, EntryAddr(i) + part, data, hw) IN
         /\ Stepped(r)
         /\ nProg' = nProg + Bool2Nat(r.issued)
         /\ log' = Logged(log, r, ProgramOp(EntryAddr(i) + part, data))
         /\ polls' = Polled(polls, hw)
         /\ dirty' = Programmed(dirty, r, EntryAddr(i) + part)
         /\ reprogrammed' = (reprogrammed \/ Reprograms(r, EntryAddr(i) + part))
         /\ ctlr' = WriteHalfWordCtlr(ctlr, r, ProgramOp(EntryAddr(i) + part, data), hw).ctlr
         /\ opCtlr' = WriteHalfWordCtlr(ctlr, r, ProgramOp(EntryAddr(i) + part, data), hw).op
    /\ UNCHANGED nErase

Next == Format \/ SaveVarCall \/ SaveVarsCall \/ StepFormat \/ StepHeader \/ StepEntry

Spec == Init /\ [][Next]_vars

\* ------------------------------------------------ lookups on any content

\* An entry slot with a matching and with a wrong CRC.
ValidSlot(id, value) == <<id, value, EEPROM_calcCRC(id, value)>>
CorruptSlot(id, value) == <<id, value, Xor16(EEPROM_calcCRC(id, value), 1)>>
ErasedSlot == <<ERASED, ERASED, ERASED>>

\* The contents of the two slots under test: erased, the id looked up (valid,
\* corrupt, with a non-zero high byte, with an erased value), another id,
\* and the id 0xFF.
LookupSlots ==
    {ErasedSlot, ValidSlot(1, 7), CorruptSlot(1, 8), ValidSlot(257, 9),
     ValidSlot(1, ERASED), ValidSlot(2, 7), ValidSlot(255, 7)}
\* first half-words: the marker, erased, anything else
LookupMarkers == {EEPROM_MARKER, ERASED, 0}
\* number of valid entries of id 4 in front of the two slots under test
LookupFills == {0, MaxVars - 2, MaxVars - 1, MaxVars}
LookupIds == {1, 2, 4, 255}

\* A page with this first half-word, n entries of id 4, then the slots s1 and
\* s2; the rest is erased.
LookupRegion(marker, n, s1, s2) ==
    [a \in Addrs |->
        IF a = 0 THEN marker
        ELSE IF a = 1 THEN 0
        ELSE LET s == (a - HeaderHalfWords) \div EntryHalfWords
                 p == (a - HeaderHalfWords) % EntryHalfWords
             IN  IF s < n THEN ValidSlot(4, 100 + s)[p + 1]
                 ELSE IF s = n THEN s1[p + 1]
                 ELSE IF s = n + 1 THEN s2[p + 1]
                 ELSE ERASED]

InitLookup ==
    /\ mem \in {LookupRegion(marker, n, s1, s2) :
                  marker \in LookupMarkers, n \in LookupFills,
                  s1 \in LookupSlots, s2 \in LookupSlots}
    /\ pc = "idle"
    /\ i = 0
    /\ part = 0
    /\ call = NoCall
    /\ varIds = <<>>
    /\ varValues = <<>>
    /\ status = EEPROM_OK
    /\ mem0 = mem
    /\ prev = NoPrev
    /\ last = NoLast
    /\ overflow = FALSE
    /\ failedSteps = 0
    /\ lateOps = 0
    /\ nErase = 0
    /\ nProg = 0
    /\ ncalls = 0
    /\ named = {}
    /\ got = NoLookup
    /\ log = <<>>
    /\ polls = NoPolls
    /\ dirty = {a \in Addrs : mem[a] # ERASED}
    /\ reprogrammed = FALSE
    /\ ctlr = ResetCtlr
    /\ opCtlr = NoOp

\* EEPROM_readVar(id) and EEPROM_varExists(id) called by the application.
Lookup ==
    /\ pc = "idle"
    /\ \E id \in LookupIds :
         got' = [id |-> id, value |-> EEPROM_readVar(mem, id),
                 exists |-> EEPROM_varExists(mem, id)]
    /\ UNCHANGED <<mem, pc, i, part, call, varIds, varValues, status, mem0, prev,
                   last, overflow, failedSteps, lateOps, nErase, nProg, ncalls,
                   named, log, polls, dirty, reprogrammed, ctlr, opCtlr>>

NextLookup == Lookup

SpecLookup == InitLookup /\ [][NextLookup]_vars

\* ------------------------------------------------------------- properties

\* The entries of a page as the data model reads it: the slots 0 .. MaxVars-1
\* before the first erased Id, of an initialized page.
RECURSIVE EntriesFrom(_, _)
EntriesFrom(m, s) ==
    IF s >= MaxVars \/ m[EntryAddr(s)] = ERASED THEN <<>>
    ELSE <<[id |-> m[EntryAddr(s)], value |-> m[EntryAddr(s) + 1],
            crc |-> m[EntryAddr(s) + 2]]>> \o EntriesFrom(m, s + 1)

Entries(m) == IF m[0] = EEPROM_MARKER THEN EntriesFrom(m, 0) ELSE <<>>
CheckPasses(e) == e.crc = Xor16(e.id, e.value)
LiveEntries(m) == SelectSeq(Entries(m), CheckPasses)
LiveCount(m) == Len(LiveEntries(m))
Pairs(es) == [k \in 1 .. Len(es) |-> <<es[k].id % 256, es[k].value>>]
Distinct(ids) == \A a, b \in 1 .. Len(ids) : a # b => ids[a] # ids[b]
InList(ids, id) == \E j \in 1 .. Len(ids) : ids[j] = id
\* the live entries a save of these ids keeps
RECURSIVE Keep(_, _)
Keep(es, ids) ==
    IF es = <<>> THEN <<>>
    ELSE (IF InList(ids, Head(es).id % 256) THEN <<>> ELSE <<Head(es)>>)
         \o Keep(Tail(es), ids)
Survivors(m, ids) == Keep(LiveEntries(m), ids)

Returned(op) == pc = "idle" /\ call.op = op
ReturnedOk(op) == Returned(op) /\ status = EEPROM_OK
SavedId == call.ids[1]
SavedValue == call.values[1]

\* C1: a saveVar(id, value) that runs with no primitive failure, from a region
\* reached by successful calls, returns EEPROM_OK and readVar(id) then returns
\* value.
C1_RoundTrip ==
    (Returned("saveVar") /\ failedSteps = 0 /\ prev.status = EEPROM_OK)
        => /\ status = EEPROM_OK
           /\ EEPROM_readVar(mem, SavedId) = SavedValue

\* C2: a successful saveVar(id, value) leaves every other stored variable
\* stored, with the value it had.
C2_Preservation ==
    ReturnedOk("saveVar")
        => \A j \in CheckedIds \ {SavedId} :
              EEPROM_varExists(mem0, j) = 1
                 => /\ EEPROM_varExists(mem, j) = 1
                    /\ EEPROM_readVar(mem, j) = EEPROM_readVar(mem0, j)

\* C3: a successful saveVars of pairwise distinct ids, when the surviving
\* entries plus count are at most 10, makes readVar(ids[j]) = values[j] for
\* every j and leaves readVar(k) unchanged for every stored k not in the list.
C3_BatchSave ==
    (/\ ReturnedOk("saveVars")
     /\ Distinct(call.ids)
     /\ Len(Survivors(mem0, call.ids)) + Len(call.ids) <= MaxVars)
        => /\ \A j \in 1 .. Len(call.ids) :
                 EEPROM_readVar(mem, call.ids[j]) = call.values[j]
           /\ \A k \in CheckedIds :
                 (EEPROM_varExists(mem0, k) = 1 /\ ~InList(call.ids, k))
                    => /\ EEPROM_varExists(mem, k) = 1
                       /\ EEPROM_readVar(mem, k) = EEPROM_readVar(mem0, k)

\* C3 witness: a batch of two distinct ids saved over a region that keeps
\* entries, one of the ids replacing a stored value.
C3_Witness ==
    /\ ReturnedOk("saveVars")
    /\ Len(call.ids) = 2
    /\ Distinct(call.ids)
    /\ Len(Survivors(mem0, call.ids)) = 1
    /\ EEPROM_varExists(mem0, call.ids[2]) = 1
    /\ EEPROM_readVar(mem0, call.ids[2]) # call.values[2]

\* C4: a successful saveVar of an id that exists leaves the number of live
\* entries unchanged, and readVar(id) then returns the new value.
C4_Overwrite ==
    (ReturnedOk("saveVar") /\ EEPROM_varExists(mem0, SavedId) = 1)
        => /\ LiveCount(mem) = LiveCount(mem0)
           /\ EEPROM_readVar(mem, SavedId) = SavedValue

\* C5: after a successful saveVar or saveVars no two live entries of the
\* region have the same low-8-bit identifier.
C5_Uniqueness ==
    (ReturnedOk("saveVar") \/ ReturnedOk("saveVars"))
        => LET es == LiveEntries(mem)
           IN  \A a, b \in 1 .. Len(es) : a # b => es[a].id % 256 # es[b].id % 256

\* The running (or last) call as a save: its new pairs, the entries it keeps
\* and how many entries exceed the capacity.
IsSave == call.op \in {"saveVar", "saveVars"}
NewPairs == [j \in 1 .. Len(call.ids) |-> <<call.ids[j], call.values[j]>>]
SurvivorPairs == Pairs(Survivors(mem0, call.ids))
Excess == Len(SurvivorPairs) + Len(NewPairs) - MaxVars
ProgrammedBeyond(m) == \E a \in Addrs : a >= EntryAddr(MaxVars) /\ m[a] # ERASED

\* C6: no half-word beyond the header and the 10 entry slots is ever programmed.
C6_Capacity == ~ProgrammedBeyond(mem)

\* C7: a save whose surviving entries plus new pairs exceed 10 returns
\* EEPROM_OK when no primitive fails and leaves exactly 10 entries: the newest
\* survivors followed by the new pairs, the oldest survivors being dropped.
C7_OverflowPolicy ==
    (pc = "idle" /\ IsSave /\ failedSteps = 0 /\ Excess > 0)
        => /\ status = EEPROM_OK
           /\ ~ProgrammedBeyond(mem)
           /\ Pairs(Entries(mem)) =
                 SubSeq(SurvivorPairs, Excess + 1, Len(SurvivorPairs)) \o NewPairs

\* C8: lookups never report an entry whose Check differs from Id XOR Value, and
\* a successful saveVar of another id leaves exactly the entries that passed
\* the Check (those of the saved id superseded) followed by the new one.
HasCorruptEntry(m, id) ==
    \E k \in 1 .. Len(Entries(m)) :
        ~CheckPasses(Entries(m)[k]) /\ Entries(m)[k].id % 256 # id
SlotPasses(m, s) ==
    m[EntryAddr(s) + 2] = Xor16(m[EntryAddr(s)], m[EntryAddr(s) + 1])
C8_CorruptEntries ==
    /\ pc = "idle"
          => \A id \in CheckedIds :
                EEPROM_findVar(mem, id) >= 0 => SlotPasses(mem, EEPROM_findVar(mem, id))
    /\ (ReturnedOk("saveVar") /\ HasCorruptEntry(mem0, SavedId))
          => LET kept == SurvivorPairs \o NewPairs
             IN  mem = RegionOf([k \in 1 .. Len(kept) |-> kept[k][1]],
                                [k \in 1 .. Len(kept) |-> kept[k][2]])

\* C8 witness: a saveVar succeeded on a region that held live entries and a
\* corrupt entry of another id.
C8_Witness ==
    /\ ReturnedOk("saveVar")
    /\ HasCorruptEntry(mem0, SavedId)
    /\ LiveCount(mem0) > 0
    /\ LiveCount(mem) = LiveCount(mem0) + 1

\* C9: after a failed primitive step a call issues no further step and returns
\* EEPROM_ERROR; a call that returns EEPROM_OK had no failed step.
C9_ErrorPropagation ==
    /\ lateOps = 0
    /\ failedSteps > 0 => (pc = "idle" /\ status = EEPROM_ERROR)
    /\ (pc = "idle" /\ call.op # "none" /\ status = EEPROM_OK) => failedSteps = 0

\* C9 witness: a save was aborted by a failed step in the middle of its entries.
C9_Witness ==
    /\ pc = "idle"
    /\ IsSave
    /\ failedSteps = 1
    /\ status = EEPROM_ERROR
    /\ LiveCount(mem) > 0
    /\ LiveCount(mem) < LiveCount(mem0)

\* C10: after a save aborted with the header written and no entry programmed,
\* readVar returns 0xFFFF for every id stored before; a following saveVar
\* without primitive failure returns EEPROM_OK and readVar(id) returns value.
C10_Recovery ==
    /\ AbortedAfterHeader
          => \A id \in StoredIds(mem0) : EEPROM_readVar(mem, id) = ERASED
    /\ (Returned("saveVar") /\ failedSteps = 0 /\ prev.headerOnly)
          => /\ status = EEPROM_OK
             /\ EEPROM_readVar(mem, SavedId) = SavedValue

\* C10 witness: the saveVar after such an aborted save of a region that held
\* variables has returned.
C10_Witness ==
    /\ Returned("saveVar")
    /\ failedSteps = 0
    /\ prev.headerOnly
    /\ prev.stored # {}
    /\ StoredIds(mem) = {SavedId}

\* The last call was a save that stopped while programming entry slot last.i,
\* before the slot's three half-words were all programmed.
AbortedInEntry ==
    /\ pc = "idle"
    /\ IsSave
    /\ status = EEPROM_ERROR
    /\ last.pc = "entry"
    /\ ~(last.part = EntryHalfWords - 1 /\ last.done)

\* C11: after a save aborted at a half-word step, the entry slot whose three
\* half-words were not all programmed fails the Check, so no lookup reports it.
C11_PartialInvisible ==
    (AbortedInEntry /\ last.i < MaxVars) => ~SlotPasses(mem, last.i)

\* C12: a format() without primitive failure returns EEPROM_OK and leaves the
\* region uninitialized, whatever it held: readVar returns 0xFFFF and varExists
\* returns 0 for every id. A format() right after a format() is one such case.
C12_Format ==
    (Returned("format") /\ failedSteps = 0)
        => /\ status = EEPROM_OK
           /\ ~EEPROM_isInitialized(mem)
           /\ \A id \in CheckedIds :
                 /\ EEPROM_readVar(mem, id) = ERASED
                 /\ EEPROM_varExists(mem, id) = 0

\* C12 witness: a second format() has returned EEPROM_OK right after a first
\* one that erased a region holding variables.
C12_Witness ==
    /\ ReturnedOk("format")
    /\ failedSteps = 0
    /\ prev.op = "format"
    /\ prev.status = EEPROM_OK
    /\ prev.stored # {}
    /\ mem = ErasedRegion

\* C13: between calls, varExists(id) is 0 for every id that no save since the
\* last format has named.
C13_NoPhantom ==
    pc = "idle" => \A id \in CheckedIds \ named : EEPROM_varExists(mem, id) = 0

\* C14: after a successful save the entries of the region are stored in
\* ascending id order, whatever the order the variables were added in.
C14_IdOrder ==
    (pc = "idle" /\ IsSave /\ status = EEPROM_OK)
        => LET es == Entries(mem)
           IN  \A a, b \in 1 .. Len(es) : a < b => es[a].id % 256 <= es[b].id % 256

\* The reference lookup: the slots 0 .. MaxVars-1 that lie before the first
\* erased Id, hold the id in the low byte of their Id and pass the Check; the
\* lowest of them is the one found, in a region that starts with the marker.
RefSlots(m, id) ==
    {s \in 0 .. MaxVars - 1 :
        /\ \A t \in 0 .. s : m[EntryAddr(t)] # ERASED
        /\ m[EntryAddr(s)] % 256 = id
        /\ m[EntryAddr(s) + 2] = Xor16(m[EntryAddr(s)], m[EntryAddr(s) + 1])}
RefFound(m, id) == m[0] = EEPROM_MARKER /\ RefSlots(m, id) # {}
RefSlot(m, id) == CHOOSE s \in RefSlots(m, id) : \A t \in RefSlots(m, id) : s <= t
RefRead(m, id) == IF RefFound(m, id) THEN m[EntryAddr(RefSlot(m, id)) + 1] ELSE ERASED
RefExists(m, id) == IF RefFound(m, id) THEN 1 ELSE 0

\* C15: for every region content and every id, readVar(id) and varExists(id)
\* return what the reference lookup returns.
C15_Lookup ==
    got.id >= 0
        => /\ got.value = RefRead(mem, got.id)
           /\ got.exists = RefExists(mem, got.id)

\* C15 witness: a lookup found its id in the last slot, behind an entry of the
\* same id with a wrong Check.
C15_Witness ==
    /\ got.id = 1
    /\ got.exists = 1
    /\ got.value = 7
    /\ EEPROM_findVar(mem, 1) = MaxVars - 1
    /\ mem[EntryAddr(MaxVars - 2)] = 1
    /\ ~SlotPasses(mem, MaxVars - 2)

\* What a call started, without the data: the erases and the addresses programmed.
Ops(l) == [k \in 1 .. Len(l) |-> [op |-> l[k].op, addr |-> l[k].addr]]
EraseAndHeader == <<EraseOp, ProgramOp(0, EEPROM_MARKER), ProgramOp(1, 0)>>
EntryPrograms(n) ==
    [k \in 1 .. EntryHalfWords * n |-> [op |-> "program", addr |-> HeaderHalfWords + k - 1]]
ErasesIn(l) == Len(SelectSeq(l, LAMBDA o : o.op = "erase"))

\* C16 (as stated): a successful save starts exactly one page erase, then programs
\* the marker, then reserved = 0, then the entries, on an uninitialized region too.
C16_OneErase ==
    (pc = "idle" /\ IsSave /\ status = EEPROM_OK)
        => /\ ErasesIn(log) = 1
           /\ SubSeq(log, 1, Len(EraseAndHeader)) = EraseAndHeader
           /\ SubSeq(Ops(log), Len(EraseAndHeader) + 1, Len(log)) = EntryPrograms(Len(varIds))

\* C16 (amended): a successful save of an initialized region starts exactly one
\* page erase, then programs the marker, then reserved = 0, then the entries;
\* a successful save of an uninitialized region first erases the page and
\* programs the header, and then does the same: two erases.
C16_EraseThenRewrite ==
    (pc = "idle" /\ IsSave /\ status = EEPROM_OK)
        => LET init == IF EEPROM_isInitialized(mem0) THEN <<>> ELSE EraseAndHeader
               n == Len(init) + Len(EraseAndHeader)
           IN  /\ ErasesIn(log) = (IF EEPROM_isInitialized(mem0) THEN 1 ELSE 2)
               /\ SubSeq(log, 1, n) = init \o EraseAndHeader
               /\ SubSeq(Ops(log), n + 1, Len(log)) = EntryPrograms(Len(varIds))

\* C16 witness: a first saveVar on an uninitialized region has succeeded with
\* two erases, and left its entry.
C16_Witness ==
    /\ ReturnedOk("saveVar")
    /\ ~EEPROM_isInitialized(mem0)
    /\ ErasesIn(log) = 2
    /\ EEPROM_readVar(mem, SavedId) = SavedValue

\* The iterations of EEPROM_findVar's loop from slot s on.
RECURSIVE FindSteps(_, _, _)
FindSteps(m, id, s) ==
    IF s >= MaxVars THEN 0
    ELSE IF m[EntryAddr(s)] = ERASED THEN 1
    ELSE IF m[EntryAddr(s)] % 256 = id /\ SlotPasses(m, s) THEN 1
    ELSE 1 + FindSteps(m, id, s + 1)

\* The primitive steps (erases and half-word programs) the running call has
\* made, and the most a call can make: two erases, two headers and one entry
\* more than the working set is meant to hold.
StepsMade == Len(log) + failedSteps
MaxSteps == 2 * (1 + HeaderHalfWords) + EntryHalfWords * (MaxVars + 1)

\* C17: every call returns after a bounded number of steps, also when the busy
\* flag never clears: a running call can always take its next step, it makes at
\* most MaxSteps primitive steps, each of at most two waits of at most
\* WaitTimeout polls, a wait that used up its polls ends the call with
\* EEPROM_ERROR, and a lookup makes at most MaxVars loop iterations.
C17_Termination ==
    /\ pc # "idle" => ENABLED (StepFormat \/ StepHeader \/ StepEntry)
    /\ StepsMade <= MaxSteps
    /\ polls.total <= 2 * WaitTimeout * StepsMade
    /\ polls.last <= WaitTimeout
    /\ (call.op # "none" /\ StepsMade > 0 /\ polls.last = WaitTimeout)
          => (pc = "idle" /\ status = EEPROM_ERROR)
    /\ pc = "idle" => \A id \in Ids \cup {255} : FindSteps(mem, id, 0) <= MaxVars

\* C17 witness: a save has returned EEPROM_ERROR from a wait that used up its
\* polls while writing a later entry.
C17_Witness ==
    /\ pc = "idle"
    /\ IsSave
    /\ status = EEPROM_ERROR
    /\ polls.last = WaitTimeout
    /\ last.pc = "entry"
    /\ last.i > 0
    /\ StepsMade > 2 * (1 + HeaderHalfWords)

\* C18: no save stores past the end of varIds and varValues, the working set
\* never holds more than MaxVars entries, and no save programs an entry slot
\* after the MaxVars-th.
C18_WorkingSetBounds ==
    /\ ~overflow
    /\ Len(varIds) <= MaxVars
    /\ Len(varValues) <= MaxVars
    /\ \A k \in 1 .. Len(log) : log[k].addr < EntryAddr(MaxVars)

\* C19: no half-word program a save starts targets a half-word that was
\* programmed since the last page erase or that does not read 0xFFFF.
C19_ProgramOnce == ~reprogrammed

\* C19 witness: a saveVar has succeeded on the partly programmed region an
\* aborted save left, and has programmed its entries.
C19_Witness ==
    /\ ReturnedOk("saveVar")
    /\ prev.op \in {"saveVar", "saveVars"}
    /\ prev.status = EEPROM_ERROR
    /\ mem0 # ErasedRegion
    /\ mem0 # RegionOf(varIds, varValues)
    /\ EntryAddr(0) \in dirty
    /\ ErasesIn(log) = 1
    /\ ~reprogrammed

\* C20: whenever a primitive has returned (so on every return of format,
\* saveVar and saveVars, with EEPROM_OK or EEPROM_ERROR) the controller is
\* locked with PER and PG clear, and the erase or program the primitive started
\* was started with the controller unlocked and only its own mode bit set.
C20_LockBracket ==
    /\ ctlr.lock /\ ~ctlr.per /\ ~ctlr.pg
    /\ opCtlr.op = "erase" => (~opCtlr.lock /\ opCtlr.per /\ ~opCtlr.pg)
    /\ opCtlr.op = "program" => (~opCtlr.lock /\ opCtlr.pg /\ ~opCtlr.per)

\* C20 witness: a save has returned EEPROM_ERROR because the half-word it
\* programmed did not read back, with the controller locked again.
C20_Witness ==
    /\ pc = "idle"
    /\ IsSave
    /\ status = EEPROM_ERROR
    /\ opCtlr.op = "program"
    /\ ~opCtlr.lock
    /\ ~last.done
    /\ last.pc = "entry"
    /\ ctlr = ResetCtlr

====
